---- MODULE Spec2Model ----
(***************************************************************************)
(* A model of fastcgi-server.go: the FastCGI record codec (readRecord,     *)
(* serialize), the body decoders (parseBeginRequest, parseParams,          *)
(* readLength), the response encoder (sendResponse, sendStream) and the    *)
(* per-connection loop (handleConnection) run by one goroutine per         *)
(* accepted connection.                                                    *)
(*                                                                         *)
(* Bytes are the integers 0..255.  Go slices are sequences; the source's   *)
(* 0-based index idx addresses element idx + 1 of the sequence.            *)
(***************************************************************************)
EXTENDS Integers, Sequences, FiniteSets, TLC

VARIABLES
    args,               \* *Args: BodySize, WriteEachRecord, MaxContentSize
    up,                 \* the server process is running (no goroutine has panicked)
    pc,                 \* per connection: "new" (not accepted), "loop", "closed"
    inbuf,              \* per connection: bytes received from the peer, not yet read
    peerClosed,         \* per connection: the peer has closed its end of the stream
    closeAfterRequest,  \* per connection: the map RequestID -> bool
    out,                \* per connection: the buffers passed to conn.Write, in order
    log,                \* per connection: what the handler printed, in order
    budget,             \* per connection: number of messages the peer may still send
    call                \* the codec function under test: [fn, arg, ret]

vars == <<args, up, pc, inbuf, peerClosed, closeAfterRequest, out, log, budget, call>>

srvVars == <<args, up, pc, inbuf, peerClosed, closeAfterRequest, out, log, budget>>

----------------------------------------------------------------------------
(* Bounds of the model *)

MaxSent == 3            \* messages the peer sends when there is one connection
MaxSent2 == 1           \* messages each peer sends when there are two
MaxSentWide == 2        \* messages the peer of connection 2 sends when alone
MaxBodySize == 2        \* largest -body-size
MaxPayloadLen == 10     \* longest payload handed to sendStream on its own
MaxChunk == 5           \* largest small -max-content-size
MaxContentLen == 3      \* longest content drawn from the byte alphabet

----------------------------------------------------------------------------
(* Program constants *)

FCGIBeginRequest == 1
FCGIAbortRequest == 2
FCGIEndRequest == 3
FCGIParams == 4
FCGIStdin == 5
FCGIStdout == 6
FCGIStderr == 7
FCGIData == 8
FCGIGetValues == 9
FCGIGetValuesResult == 10
FCGIUnknownType == 11

FCGIResponder == 1
FCGIAuthorizer == 2
FCGIFilter == 3
FCGIUnknownRole == 4

fixedLength == 8
MaxContentSizeLimit == 65535

Byte == 0..255

----------------------------------------------------------------------------
(* Sequence helpers *)

Min(a, b) == IF a < b THEN a ELSE b

\* s[i:j] of Go, 0-based, end exclusive (callers guarantee 0 <= i <= j <= len)
Slice(s, i, j) == SubSeq(s, i + 1, j)

\* make([]byte, n) filled with b
Fill(n, b) == [i \in 1..n |-> b]

RECURSIVE Flatten(_)
Flatten(ss) == IF ss = <<>> THEN <<>> ELSE Head(ss) \o Flatten(Tail(ss))

----------------------------------------------------------------------------
(* Record.serialize *)

\* serialize writing only the low byte of the content length
serializeLowLength(r) ==
    LET contentLength == Len(r.ContentData)
        buf == << 1, r.Type % 256, (r.RequestID \div 256) % 256, r.RequestID % 256,
                  0, contentLength % 256, 0, 0 >>
    IN  buf \o r.ContentData

serialize(r) ==
    LET contentLength == Len(r.ContentData)
        buf == << 1,
                  r.Type % 256,
                  (r.RequestID \div 256) % 256,
                  r.RequestID % 256,
                  (contentLength \div 256) % 256,
                  contentLength % 256,
                  0,
                  0 >>
    IN  buf \o r.ContentData

----------------------------------------------------------------------------
(* The reader: a net.Conn with the bytes in buf received and, when eof,    *)
(* the peer's end closed.  Read copies what is there, at most n bytes.     *)

\* conn.Read(data) with len(data) = n.  err is "nil", "EOF" or "block"
\* (nothing to return yet: the call does not return in this state).
Read(rd, n) ==
    IF n = 0
    THEN [n |-> 0, err |-> "nil", data |-> <<>>, rd |-> rd]
    ELSE IF rd.buf = <<>>
         THEN [n |-> 0, err |-> IF rd.eof THEN "EOF" ELSE "block",
               data |-> <<>>, rd |-> rd]
         ELSE LET k == Min(n, Len(rd.buf))
              IN  [n |-> k, err |-> "nil", data |-> SubSeq(rd.buf, 1, k),
                   rd |-> [rd EXCEPT !.buf = SubSeq(rd.buf, k + 1, Len(rd.buf))]]

readFull(rd, n) ==
    LET r == Read(rd, n)
    IN  IF r.err # "nil"
        THEN [err |-> r.err, data |-> <<>>, rd |-> r.rd]
        ELSE IF r.n # n
             THEN [err |-> "short read", data |-> r.data, rd |-> r.rd]
             ELSE [err |-> "nil", data |-> r.data, rd |-> r.rd]

\* getRecordType with a case for 0
getRecordTypeAcceptsZero(t) == IF t \in 0..10 THEN t ELSE 11

getRecordType(t) == IF t \in 1..10 THEN t ELSE FCGIUnknownType

NoRecord == [Version |-> 0, Type |-> 0, RequestID |-> 0, ContentLength |-> 0,
             PaddingLength |-> 0, Reserved |-> 0,
             ContentData |-> <<>>, PaddingData |-> <<>>]

\* The result of readRecord: kind is "ok", "err" or "block"; err names the
\* failing step; rd is the reader afterwards.
RRErr(e, rd) == [kind |-> IF e = "block" THEN "block" ELSE "err",
                 err |-> e, record |-> NoRecord, rd |-> rd]

\* readFull returned r with an error: readRecord fails in this step, unless
\* the read is still waiting for bytes
Fail(step, r) == RRErr(IF r.err = "block" THEN "block" ELSE step, r.rd)

\* readRecord leaving the padding in the stream
readPaddingNotConsumed(hdr, c, p) ==
    IF p.err # "nil" THEN Fail("reading padding", p)
    ELSE [kind |-> "ok", err |-> "nil",
          record |-> [Version |-> hdr.version,
                      Type |-> hdr.recordType,
                      RequestID |-> hdr.requestID,
                      ContentLength |-> hdr.contentLength,
                      PaddingLength |-> hdr.paddingLength,
                      Reserved |-> hdr.reserved,
                      ContentData |-> c.data,
                      PaddingData |-> p.data],
          rd |-> c.rd]

\* readRecord after the header: the padding has been read with result p
readPadding(hdr, c, p) ==
    IF p.err # "nil" THEN Fail("reading padding", p)
    ELSE [kind |-> "ok", err |-> "nil",
          record |-> [Version |-> hdr.version,
                      Type |-> hdr.recordType,
                      RequestID |-> hdr.requestID,
                      ContentLength |-> hdr.contentLength,
                      PaddingLength |-> hdr.paddingLength,
                      Reserved |-> hdr.reserved,
                      ContentData |-> c.data,
                      PaddingData |-> p.data],
          rd |-> p.rd]

\* readRecord after the header: the content has been read with result c
readContent(hdr, c) ==
    IF c.err # "nil" THEN Fail("reading content", c)
    ELSE readPadding(hdr, c, readFull(c.rd, hdr.paddingLength))

\* readRecord with the 8 header bytes read, the reader being rd after them
readFields(header, rd) ==
    LET hdr == [version |-> header[1],
                recordType |-> getRecordType(header[2]),
                requestID |-> header[3] * 256 + header[4],
                contentLength |-> header[5] * 256 + header[6],
                paddingLength |-> header[7],
                reserved |-> header[8]]
    IN  IF hdr.version # 1 THEN RRErr("unexpected version", rd)
        ELSE IF hdr.recordType = FCGIUnknownType
             THEN RRErr("unknown record type", rd)
        ELSE IF hdr.reserved # 0 THEN RRErr("reserved value is not 0", rd)
        ELSE readContent(hdr, readFull(rd, hdr.contentLength))

\* readRecord with the header read with result h
readHeader(h) ==
    IF h.err # "nil" THEN Fail("reading header", h)
    ELSE readFields(h.data, h.rd)

\* A call that is waiting for bytes in one of its reads has not returned:
\* the reader is as it was before the call.
Returned(rd, r) == IF r.err = "block" THEN RRErr("block", rd) ELSE r

readRecord(rd) == Returned(rd, readHeader(readFull(rd, fixedLength)))

----------------------------------------------------------------------------
(* Body decoders.  An index past the end of a slice is a run-time panic:   *)
(* kind "panic".                                                           *)

getRole(r) == IF r \in 1..3 THEN r ELSE FCGIUnknownRole

parseBeginRequest(record) ==
    LET cd == record.ContentData
    IN  IF Len(cd) < 2
        THEN [kind |-> "panic", err |-> "index out of range", Role |-> 0, Flags |-> 0]
        ELSE
        LET rawRole == (cd[1] * 256 + cd[2]) % 65536
            role == getRole(rawRole)
        IN  IF role = FCGIUnknownRole
            THEN [kind |-> "err", err |-> "unknown role", Role |-> 0, Flags |-> 0]
            ELSE IF Len(cd) < 3
                 THEN [kind |-> "panic", err |-> "index out of range",
                       Role |-> 0, Flags |-> 0]
                 ELSE [kind |-> "ok", err |-> "nil", Role |-> role, Flags |-> cd[3]]

\* int32(b) << 24 for a byte b: the top bit of b becomes the sign bit
Shl24 == 16777216
Int32Shl24(b) == IF b >= 128 THEN (b - 256) * Shl24 ELSE b * Shl24

\* readLength that keeps the top bit of the first byte
readLengthNoMask(cd, idx) ==
    IF idx >= Len(cd)
    THEN [kind |-> "panic", val |-> 0, idx |-> idx]
    ELSE IF cd[idx + 1] \div 128 = 0
         THEN [kind |-> "ok", val |-> cd[idx + 1], idx |-> idx + 1]
         ELSE IF idx + 3 >= Len(cd)
              THEN [kind |-> "panic", val |-> 0, idx |-> idx]
              ELSE [kind |-> "ok",
                    val |-> Int32Shl24(cd[idx + 1]) + cd[idx + 2] * 65536
                               + cd[idx + 3] * 256 + cd[idx + 4],
                    idx |-> idx + 4]

readLength(cd, idx) ==
    IF idx >= Len(cd)
    THEN [kind |-> "panic", val |-> 0, idx |-> idx]
    ELSE IF cd[idx + 1] \div 128 = 0
         THEN [kind |-> "ok", val |-> cd[idx + 1], idx |-> idx + 1]
         ELSE IF idx + 3 >= Len(cd)
              THEN [kind |-> "panic", val |-> 0, idx |-> idx]
              ELSE LET b0 == Int32Shl24(cd[idx + 1] % 128)
                       b1 == cd[idx + 2] * 65536
                       b2 == cd[idx + 3] * 256
                       b3 == cd[idx + 4]
                   IN  [kind |-> "ok", val |-> b0 + b1 + b2 + b3, idx |-> idx + 4]

\* parseParams that does not advance past the name before reading the value
RECURSIVE parseParamsFromNoAdvance(_, _, _)
parseParamsFromNoAdvance(cd, idx, pairs) ==
    IF ~(idx < Len(cd))
    THEN [kind |-> "ok", err |-> "nil", pairs |-> pairs]
    ELSE
    LET nl == readLength(cd, idx)
        vl == readLength(cd, nl.idx)
    IN  IF nl.kind = "panic" \/ vl.kind = "panic"
           \/ nl.val > Len(cd) - vl.idx \/ vl.val > Len(cd) - vl.idx
        THEN [kind |-> "panic", err |-> "index out of range", pairs |-> pairs]
        ELSE parseParamsFromNoAdvance(
                 cd, vl.idx + vl.val,
                 Append(pairs, << Slice(cd, vl.idx, vl.idx + nl.val),
                                  Slice(cd, vl.idx, vl.idx + vl.val) >>))

\* The loop of parseParams from index idx on; pairs are the name-value
\* pairs printed so far.  A slice cd[i : i + n] panics when i + n exceeds
\* len(cd); the test is written n > len(cd) - i, the indices being 64-bit
\* in the source.
RECURSIVE parseParamsFrom(_, _, _)

\* One pass of the loop, the two lengths read with results nl and vl
parsePair(cd, pairs, nl, vl) ==
    IF nl.kind = "panic" \/ vl.kind = "panic"
    THEN [kind |-> "panic", err |-> "index out of range", pairs |-> pairs]
    ELSE IF nl.val > Len(cd) - vl.idx
    THEN [kind |-> "panic", err |-> "slice bounds out of range", pairs |-> pairs]
    ELSE IF Len(Slice(cd, vl.idx, vl.idx + nl.val)) # nl.val
    THEN [kind |-> "err", err |-> "short copy of name", pairs |-> pairs]
    ELSE IF vl.val > Len(cd) - (vl.idx + nl.val)
    THEN [kind |-> "panic", err |-> "slice bounds out of range", pairs |-> pairs]
    ELSE IF Len(Slice(cd, vl.idx + nl.val, vl.idx + nl.val + vl.val)) # vl.val
    THEN [kind |-> "err", err |-> "short copy of value", pairs |-> pairs]
    ELSE parseParamsFrom(
             cd, vl.idx + nl.val + vl.val,
             Append(pairs, << Slice(cd, vl.idx, vl.idx + nl.val),
                              Slice(cd, vl.idx + nl.val,
                                    vl.idx + nl.val + vl.val) >>))

\* The value length is read at the index the name length ends at
parseLengths(cd, pairs, nl) ==
    IF nl.kind = "panic"
    THEN [kind |-> "panic", err |-> "index out of range", pairs |-> pairs]
    ELSE parsePair(cd, pairs, nl, readLength(cd, nl.idx))

parseParamsFrom(cd, idx, pairs) ==
    IF ~(idx < Len(cd))
    THEN [kind |-> "ok", err |-> "nil", pairs |-> pairs]
    ELSE parseLengths(cd, pairs, readLength(cd, idx))

parseParams(record) == parseParamsFrom(record.ContentData, 0, <<>>)

parseStdin(record) == "nil"

----------------------------------------------------------------------------
(* The response encoder.  sendStream and sendResponse are modelled by the  *)
(* buffers they pass to writeAll, in order (writes), and the accumulated   *)
(* buffer (buf).  Which of the writes the transport accepts is decided by  *)
(* the caller of these operators.                                          *)

\* "Content-Type: text/plain\r\nConnection: close\r\n\r\n"
headers == << 67, 111, 110, 116, 101, 110, 116, 45, 84, 121, 112, 101, 58, 32,
              116, 101, 120, 116, 47, 112, 108, 97, 105, 110, 13, 10,
              67, 111, 110, 110, 101, 99, 116, 105, 111, 110, 58, 32,
              99, 108, 111, 115, 101, 13, 10, 13, 10 >>

\* The loop of sendStream stopping before a last chunk shorter than the limit
RECURSIVE sendStreamLoopDropTail(_, _, _, _, _, _, _)
sendStreamLoopDropTail(i, requestID, payload, writeEachRecord, maxContentSize,
                       buf, writes) ==
    IF ~(i + maxContentSize <= Len(payload))
    THEN [buf |-> buf, writes |-> writes]
    ELSE LET rec == [Type |-> FCGIStdout, RequestID |-> requestID,
                     ContentData |-> Slice(payload, i, i + maxContentSize)]
         IN  sendStreamLoopDropTail(i + maxContentSize, requestID, payload,
                                    writeEachRecord, maxContentSize,
                                    buf \o serialize(rec),
                                    IF writeEachRecord
                                    THEN Append(writes, serialize(rec)) ELSE writes)

\* The for loop of sendStream at index i
RECURSIVE sendStreamLoop(_, _, _, _, _, _, _)
sendStreamLoop(i, requestID, payload, writeEachRecord, maxContentSize, buf, writes) ==
    IF ~(i < Len(payload))
    THEN [buf |-> buf, writes |-> writes]
    ELSE LET end == IF i + maxContentSize > Len(payload)
                    THEN Len(payload) ELSE i + maxContentSize
             rec == [Type |-> FCGIStdout, RequestID |-> requestID,
                     ContentData |-> Slice(payload, i, end)]
         IN  sendStreamLoop(i + maxContentSize, requestID, payload,
                            writeEachRecord, maxContentSize,
                            buf \o serialize(rec),
                            IF writeEachRecord
                            THEN Append(writes, serialize(rec)) ELSE writes)

\* sendStream after its loop has ended with l
sendEndOfStream(requestID, writeEachRecord, l) ==
    LET rec == [Type |-> FCGIStdout, RequestID |-> requestID, ContentData |-> << >>]
    IN  [buf |-> l.buf \o serialize(rec),
         writes |-> IF writeEachRecord
                    THEN Append(l.writes, serialize(rec)) ELSE l.writes]

\* sendStream without the zero-length record that ends the stream
sendStreamNoTerminator(requestID, payload, writeEachRecord, maxContentSize) ==
    sendStreamLoop(0, requestID, payload, writeEachRecord, maxContentSize,
                   << >>, << >>)

\* sendStream that writes the zero-length record but leaves it out of buf
sendStreamBufLacksTerminator(requestID, payload, writeEachRecord, maxContentSize) ==
    [buf |-> sendStreamNoTerminator(requestID, payload, writeEachRecord,
                                    maxContentSize).buf,
     writes |-> sendEndOfStream(requestID, writeEachRecord,
                                sendStreamNoTerminator(requestID, payload,
                                                       writeEachRecord,
                                                       maxContentSize)).writes]

\* sendStream whose loop stops before a last chunk shorter than the limit
sendStreamDropTail(requestID, payload, writeEachRecord, maxContentSize) ==
    sendEndOfStream(requestID, writeEachRecord,
                    sendStreamLoopDropTail(0, requestID, payload, writeEachRecord,
                                           maxContentSize, << >>, << >>))

sendStream(requestID, payload, writeEachRecord, maxContentSize) ==
    sendEndOfStream(requestID, writeEachRecord,
                    sendStreamLoop(0, requestID, payload, writeEachRecord,
                                   maxContentSize, << >>, << >>))

\* sendResponse after sendStream has returned s
\* sendResponse returning before the EndRequest record is written
sendEndRequestLeftOut(requestID, writeEachRecord, s) ==
    [buf |-> s.buf,
     writes |-> IF writeEachRecord THEN s.writes ELSE Append(s.writes, s.buf)]

sendEndRequest(requestID, writeEachRecord, s) ==
    LET endRecordBuf == Fill(8, 0)
        endRec == [Type |-> FCGIEndRequest, RequestID |-> requestID,
                   ContentData |-> endRecordBuf]
    IN  [buf |-> s.buf \o serialize(endRec),
         writes |-> IF writeEachRecord
                    THEN Append(s.writes, serialize(endRec))
                    ELSE Append(s.writes, s.buf \o serialize(endRec))]

\* sendResponse that puts the body before the headers
sendResponseBodyFirst(requestID, bodySize, writeEachRecord, maxContentSize) ==
    sendEndRequest(requestID, writeEachRecord,
                   sendStream(requestID, Fill(bodySize, 97) \o headers,
                              writeEachRecord, maxContentSize))

sendResponse(requestID, bodySize, writeEachRecord, maxContentSize) ==
    sendEndRequest(requestID, writeEachRecord,
                   sendStream(requestID, headers \o Fill(bodySize, 97),
                              writeEachRecord, maxContentSize))

----------------------------------------------------------------------------
(* The connection handler and its environment.                             *)

Conns == {1, 2}

\* What the handler prints: the line, the request id and the value the
\* line is about (a type, a role, the flags, a length), 0 when there is none.
Ev(e, id, x) == [e |-> e, id |-> id, x |-> x]

\* Bytes a peer may send: well-formed records and raw frames
Frame(type, id, content) ==
    serialize([Type |-> type, RequestID |-> id, ContentData |-> content])

RawFrame(version, type, id, clen, plen, reserved, rest) ==
    << version, type, id \div 256, id % 256, clen \div 256, clen % 256,
       plen, reserved >> \o rest

BeginBody(role, flags) == << role \div 256, role % 256, flags, 0, 0, 0, 0, 0 >>

\* With connection 1 alone its peer draws from the first menu, with
\* connection 2 alone its peer draws from the second as well, and with two
\* connections each peer draws from the small one.  A message of two
\* records is two records that reach the server together.
Menu(c) ==
    IF pc[2] = "none"
    THEN { Frame(FCGIBeginRequest, 1, BeginBody(FCGIResponder, 0)),
           Frame(FCGIBeginRequest, 1, BeginBody(FCGIResponder, 1)),
           Frame(FCGIBeginRequest, 2, BeginBody(FCGIResponder, 3)),
           Frame(FCGIBeginRequest, 1, BeginBody(FCGIFilter, 0)),
           Frame(FCGIBeginRequest, 1, << 0, 1 >>),
           Frame(FCGIParams, 1, << >>),
           Frame(FCGIParams, 1, << 1, 1, 107 >>),
           Frame(FCGIStdin, 1, << 120 >>),
           Frame(FCGIStdin, 2, << >>),
           Frame(FCGIData, 1, << 120 >>),
           Frame(FCGIGetValues, 0, << >>),
           RawFrame(1, FCGIStdin, 1, 1, 1, 0, << 120, 0 >>),
           RawFrame(1, FCGIUnknownType, 1, 0, 0, 0, << >>) }
    ELSE IF pc[1] = "none"
    THEN { Frame(FCGIBeginRequest, 1, BeginBody(FCGIResponder, 0)),
           Frame(FCGIBeginRequest, 1, BeginBody(FCGIResponder, 1)),
           Frame(FCGIBeginRequest, 2, BeginBody(FCGIResponder, 3)),
           Frame(FCGIBeginRequest, 2, BeginBody(FCGIResponder, 2)),
           Frame(FCGIBeginRequest, 0, BeginBody(FCGIResponder, 0)),
           Frame(FCGIBeginRequest, 1, BeginBody(FCGIFilter, 0)),
           Frame(FCGIBeginRequest, 1, BeginBody(FCGIAuthorizer, 1)),
           Frame(FCGIBeginRequest, 1, BeginBody(0, 0)),
           Frame(FCGIBeginRequest, 1, << 0, 1 >>),
           Frame(FCGIParams, 1, << >>),
           Frame(FCGIParams, 0, << >>),
           Frame(FCGIParams, 1, << 1, 1, 107 >>),
           Frame(FCGIStdin, 1, << 120 >>),
           Frame(FCGIStdin, 2, << >>),
           Frame(FCGIStdin, 0, << >>),
           RawFrame(1, FCGIStdin, 1, 1, 1, 0, << 120, 0 >>),
           RawFrame(1, FCGIBeginRequest, 2, 8, 2, 0,
                    BeginBody(FCGIFilter, 0) \o << 0, 0 >>),
           RawFrame(1, FCGIUnknownType, 1, 0, 0, 0, << >>),
           Slice(Frame(FCGIStdin, 1, << 120 >>), 0, 4),
           Frame(FCGIAbortRequest, 1, << >>),
           Frame(FCGIEndRequest, 1, Fill(8, 0)),
           Frame(FCGIStdout, 1, << 120 >>),
           Frame(FCGIStderr, 1, << 120 >>),
           Frame(FCGIData, 1, << 120 >>),
           Frame(FCGIGetValues, 1, << >>),
           Frame(FCGIGetValuesResult, 1, << >>),
           Frame(FCGIGetValues, 0, << >>),
           Frame(FCGIBeginRequest, 1, BeginBody(FCGIResponder, 0))
               \o Frame(FCGIBeginRequest, 2, BeginBody(FCGIResponder, 2)),
           Frame(FCGIStdin, 1, << 120 >>) \o Frame(FCGIStdin, 2, << >>) }
    ELSE { Frame(FCGIBeginRequest, 1, BeginBody(FCGIResponder, 0)),
           Frame(FCGIBeginRequest, 1, BeginBody(FCGIResponder, 1)),
           Frame(FCGIBeginRequest, 1, << 0 >>),
           Frame(FCGIParams, 1, << 1 >>),
           Frame(FCGIStdin, 1, << 120 >>),
           Frame(FCGIData, 1, << >>),
           Frame(FCGIBeginRequest, 1, BeginBody(FCGIResponder, 0))
               \o Frame(FCGIStdin, 1, << >>) }

ArgsChoices ==
    { [BodySize |-> 1, WriteEachRecord |-> TRUE,
       MaxContentSize |-> MaxContentSizeLimit],
      [BodySize |-> MaxBodySize, WriteEachRecord |-> TRUE, MaxContentSize |-> 10],
      [BodySize |-> MaxBodySize, WriteEachRecord |-> FALSE, MaxContentSize |-> 10] }

NoCall == [fn |-> "none", arg |-> << >>, ret |-> << >>, done |-> FALSE]

\* The state after main has started listening: the connections of live are
\* waiting to be accepted, and each peer is going to send up to n messages.
InitWith(live, n) ==
    /\ args \in ArgsChoices
    /\ up = TRUE
    /\ pc = [c \in Conns |-> IF c \in live THEN "new" ELSE "none"]
    /\ budget = [c \in Conns |-> IF c \in live THEN n ELSE 0]
    /\ inbuf = [c \in Conns |-> << >>]
    /\ peerClosed = [c \in Conns |-> FALSE]
    /\ closeAfterRequest = [c \in Conns |-> << >>]
    /\ out = [c \in Conns |-> << >>]
    /\ log = [c \in Conns |-> << >>]
    /\ call = NoCall

\* One connection
Init == InitWith({1}, MaxSent)

\* Two connections served concurrently
InitTwo == InitWith(Conns, MaxSent2)

\* Connection 2 alone, its peer sending records of every type
InitWide == InitWith({2}, MaxSentWide)

\* main: ln.Accept() and go handleConnection(conn, args)
Accept(c) ==
    /\ up
    /\ pc[c] = "new"
    /\ pc' = [pc EXCEPT ![c] = "loop"]
    /\ log' = [log EXCEPT ![c] = Append(@, Ev("new connection", 0, 0))]
    /\ UNCHANGED <<args, up, inbuf, peerClosed, closeAfterRequest, out, budget, call>>

\* Nothing is left unread after the record that readRecord returns as rr
LastRecord(rr) == rr.kind # "block" /\ rr.rd.buf = << >>

\* The bytes hold at most one record, whole
OneRecord(bytes) ==
    bytes = << >> \/ LastRecord(readRecord([buf |-> bytes, eof |-> FALSE]))

\* The peer writes the bytes m to the connection.  It sends ahead of the
\* handler by at most one record.
PeerSend(c, m) ==
    /\ up
    /\ pc[c] = "loop"
    /\ ~peerClosed[c]
    /\ budget[c] > 0
    /\ OneRecord(inbuf[c])
    /\ budget' = [budget EXCEPT ![c] = @ - 1]
    /\ inbuf' = [inbuf EXCEPT ![c] = @ \o m]
    /\ UNCHANGED <<args, up, pc, peerClosed, closeAfterRequest, out, log, call>>

\* The peer closes the connection
PeerClose(c) ==
    /\ up
    /\ pc[c] = "loop"
    /\ ~peerClosed[c]
    /\ peerClosed' = [peerClosed EXCEPT ![c] = TRUE]
    /\ UNCHANGED <<args, up, pc, inbuf, closeAfterRequest, out, log, budget, call>>

\* The record the handler of c gets from readRecord(conn) in this state
NextRecord(c) == readRecord([buf |-> inbuf[c], eof |-> peerClosed[c]])

Received(record) ==
    IF record.RequestID = 0
    THEN Ev("management record", 0, record.Type)
    ELSE Ev("application record", record.RequestID, record.Type)

\* break, then conn.Close() and the last line of handleConnection
Break(c, lines) ==
    /\ pc' = [pc EXCEPT ![c] = "closed"]
    /\ log' = [log EXCEPT ![c] = @ \o lines \o << Ev("connection closed", 0, 0) >>]
    /\ UNCHANGED up

\* continue
Continue(c, lines) ==
    /\ log' = [log EXCEPT ![c] = @ \o lines]
    /\ UNCHANGED <<pc, up>>

\* An unrecovered panic in a goroutine ends the process
Panic(c, lines) ==
    /\ up' = FALSE
    /\ log' = [log EXCEPT ![c] = @ \o lines \o << Ev("panic", 0, 0) >>]
    /\ UNCHANGED pc

\* beginRequest.Flags&0x01 == 0x01, testing bit 1 instead of bit 0
CloseFlagBitOne(flags) == (flags \div 2) % 2 = 1

\* beginRequest.Flags&0x01 == 0x01
CloseFlag(flags) == flags % 2 = 1

\* m[k] of a Go map: the zero value when k is absent
\* m[k] that is true when any entry of the map is
MapGetAnyEntry(m, k) == \E x \in DOMAIN m : m[x]

MapGet(m, k) == IF k \in DOMAIN m THEN m[k] ELSE FALSE
\* m[k] = v keeping the value of an entry that is there
MapSetNoOverwrite(m, k, v) ==
    [x \in DOMAIN m \cup {k} |-> IF x \in DOMAIN m THEN m[x] ELSE v]

MapSet(m, k, v) == [x \in DOMAIN m \cup {k} |-> IF x = k THEN v ELSE m[x]]
\* delete(m, k) leaving the entry in place
MapDeleteNothing(m, k) == m

MapDelete(m, k) == [x \in DOMAIN m \ {k} |-> m[x]]

\* The handler of c is at readRecord and the call returns rr
Reads(c, rr) ==
    /\ up
    /\ pc[c] = "loop"
    /\ rr.kind # "block"
    /\ inbuf' = [inbuf EXCEPT ![c] = rr.rd.buf]

\* handleConnection, one iteration: readRecord fails
OnReadError(c, rr) ==
    /\ Reads(c, rr)
    /\ rr.kind = "err"
    /\ Break(c, << Ev("reading record", 0, 0) >>)
    /\ UNCHANGED <<args, peerClosed, closeAfterRequest, out, budget, call>>

ReadError(c) == OnReadError(c, NextRecord(c))

\* The BeginRequest branch with one map shared by all handlers
OnBeginRequestSharedMap(c, record, beginRequest) ==
    /\ IF beginRequest.kind = "panic"
       THEN /\ Panic(c, << Received(record) >>)
            /\ UNCHANGED closeAfterRequest
       ELSE IF beginRequest.kind = "err"
       THEN /\ Break(c, << Received(record),
                          Ev("reading begin request", record.RequestID, 0) >>)
            /\ UNCHANGED closeAfterRequest
       ELSE IF beginRequest.Role # FCGIResponder
       THEN /\ Break(c, << Received(record),
                          Ev("unexpected role", record.RequestID,
                             beginRequest.Role) >>)
            /\ UNCHANGED closeAfterRequest
       ELSE /\ closeAfterRequest' =
                   [d \in Conns |->
                       MapSet(closeAfterRequest[d], record.RequestID,
                              CloseFlag(beginRequest.Flags))]
            /\ Continue(c, << Received(record),
                              Ev("begin request", record.RequestID,
                                 beginRequest.Flags) >>)
    /\ UNCHANGED <<args, peerClosed, out, budget, call>>

\* handleConnection, one iteration: a BeginRequest record, parsed as
\* beginRequest
OnBeginRequest(c, record, beginRequest) ==
    /\ IF beginRequest.kind = "panic"
       THEN /\ Panic(c, << Received(record) >>)
            /\ UNCHANGED closeAfterRequest
       ELSE IF beginRequest.kind = "err"
       THEN /\ Break(c, << Received(record),
                          Ev("reading begin request", record.RequestID, 0) >>)
            /\ UNCHANGED closeAfterRequest
       ELSE IF beginRequest.Role # FCGIResponder
       THEN /\ Break(c, << Received(record),
                          Ev("unexpected role", record.RequestID,
                             beginRequest.Role) >>)
            /\ UNCHANGED closeAfterRequest
       ELSE /\ closeAfterRequest' =
                   [closeAfterRequest EXCEPT ![c] =
                       MapSet(@, record.RequestID, CloseFlag(beginRequest.Flags))]
            /\ Continue(c, << Received(record),
                              Ev("begin request", record.RequestID,
                                 beginRequest.Flags) >>)
    /\ UNCHANGED <<args, peerClosed, out, budget, call>>

OnBeginRequestRecord(c, rr) ==
    /\ Reads(c, rr)
    /\ rr.kind = "ok"
    /\ rr.record.Type = FCGIBeginRequest
    /\ OnBeginRequest(c, rr.record, parseBeginRequest(rr.record))

HandleBeginRequest(c) == OnBeginRequestRecord(c, NextRecord(c))

\* handleConnection, one iteration: a Params record, parseParams returning p
OnParams(c, record, p) ==
    /\ IF p.kind = "panic"
       THEN Panic(c, << Received(record) >>)
       ELSE IF p.kind = "err"
       THEN Break(c, << Received(record),
                        Ev("reading params", record.RequestID, 0) >>)
       ELSE Continue(c, << Received(record),
                           Ev("params record", record.RequestID, Len(p.pairs)) >>)
    /\ UNCHANGED <<args, peerClosed, closeAfterRequest, out, budget, call>>

OnParamsRecord(c, rr) ==
    /\ Reads(c, rr)
    /\ rr.kind = "ok"
    /\ rr.record.Type = FCGIParams
    /\ OnParams(c, rr.record, parseParams(rr.record))

HandleParams(c) == OnParamsRecord(c, NextRecord(c))

\* handleConnection, one iteration: a Stdin record.  writes are the buffers
\* sendResponse passes to writeAll, of which the transport accepts the
\* first k; it can refuse one only when the peer is gone.
OnStdin(c, record, writes) ==
    /\ parseStdin(record) = "nil"
    /\ \E k \in (IF peerClosed[c] THEN 0..Len(writes) ELSE {Len(writes)}) :
          /\ out' = [out EXCEPT ![c] = @ \o SubSeq(writes, 1, k)]
          /\ IF k < Len(writes)
             THEN /\ Break(c, << Received(record),
                                Ev("stdin record", record.RequestID,
                                   record.ContentLength),
                                Ev("sending response", record.RequestID, 0) >>)
                  /\ UNCHANGED closeAfterRequest
             ELSE IF MapGet(closeAfterRequest[c], record.RequestID)
             THEN /\ Break(c, << Received(record),
                                Ev("stdin record", record.RequestID,
                                   record.ContentLength),
                                Ev("sent response", record.RequestID, 0),
                                Ev("told to close connection",
                                   record.RequestID, 0) >>)
                  /\ UNCHANGED closeAfterRequest
             ELSE /\ closeAfterRequest' =
                         [closeAfterRequest EXCEPT ![c] =
                             MapDelete(@, record.RequestID)]
                  /\ Continue(c, << Received(record),
                                    Ev("stdin record", record.RequestID,
                                       record.ContentLength),
                                    Ev("sent response", record.RequestID, 0),
                                    Ev("keeping connection open",
                                       record.RequestID, 0) >>)
    /\ UNCHANGED <<args, peerClosed, budget, call>>

OnStdinRecord(c, rr) ==
    /\ Reads(c, rr)
    /\ rr.kind = "ok"
    /\ rr.record.Type = FCGIStdin
    /\ OnStdin(c, rr.record,
               sendResponse(rr.record.RequestID, args.BodySize,
                            args.WriteEachRecord, args.MaxContentSize).writes)

HandleStdin(c) == OnStdinRecord(c, NextRecord(c))

\* The last branch of the loop with continue in place of break
OnUnhandledRecordContinue(c, rr) ==
    /\ Reads(c, rr)
    /\ rr.kind = "ok"
    /\ rr.record.Type \notin {FCGIBeginRequest, FCGIParams, FCGIStdin}
    /\ Continue(c, << Received(rr.record),
                      Ev("unhandled record type", rr.record.RequestID,
                         rr.record.Type) >>)
    /\ UNCHANGED <<args, peerClosed, closeAfterRequest, out, budget, call>>

\* handleConnection, one iteration: any other record type
OnUnhandledRecord(c, rr) ==
    /\ Reads(c, rr)
    /\ rr.kind = "ok"
    /\ rr.record.Type \notin {FCGIBeginRequest, FCGIParams, FCGIStdin}
    /\ Break(c, << Received(rr.record),
                   Ev("unhandled record type", rr.record.RequestID,
                      rr.record.Type) >>)
    /\ UNCHANGED <<args, peerClosed, closeAfterRequest, out, budget, call>>

HandleUnhandled(c) == OnUnhandledRecord(c, NextRecord(c))

Next ==
    \E c \in Conns :
        \/ Accept(c)
        \/ \E m \in Menu(c) : PeerSend(c, m)
        \/ PeerClose(c)
        \/ ReadError(c)
        \/ HandleBeginRequest(c)
        \/ HandleParams(c)
        \/ HandleStdin(c)
        \/ HandleUnhandled(c)

Spec == Init /\ [][Next]_vars

SpecTwo == InitTwo /\ [][Next]_vars

SpecWide == InitWide /\ [][Next]_vars

----------------------------------------------------------------------------
(* The codec functions on their own: the initial state draws a function    *)
(* and its arguments, the action applies the function.                     *)

\* Sequences over the set S of length lo..hi
SeqsOf(S, lo, hi) == UNION { [1..n -> S] : n \in lo..hi }

\* 1, 2, ..., n: a payload whose bytes are all different
Ramp(n) == [i \in 1..n |-> i]

LengthBytes == {0, 1, 127, 128, 255}
RoleBytes == {0, 1, 2, 3, 4, 255}
ParamBytes == {0, 1, 2, 129}
TypeBytes == 0..12 \cup {255}
RequestIDs == {0, 1, 255, 256, 65535}

\* [0x03]"foo"[0x03]"bar" and [0x03][0x03]"foo""bar"
FooBarInterleaved == << 3, 102, 111, 111, 3, 98, 97, 114 >>
FooBarLengthsFirst == << 3, 3, 102, 111, 111, 98, 97, 114 >>

ParamContents ==
    SeqsOf(ParamBytes, 0, MaxContentLen + 1)
        \cup { FooBarInterleaved, FooBarLengthsFirst,
               << 128, 0, 0, 1, 128, 0, 0, 2, 110, 118, 118 >>,
               << 128, 0, 0, 1, 0, 110, 1, 1, 110, 118 >>,
               << 1, 128, 0, 1, 0, 110 >>,
               << 255, 255, 255, 255, 0 >> }

RoundTripContents ==
    SeqsOf({0, 97}, 0, MaxContentLen)
        \cup { Fill(255, 97), Ramp(256), Fill(257, 1), Fill(1000, 97) }

CallArgs(fn) ==
    CASE fn = "readLength" ->
            [cd : SeqsOf(LengthBytes, 1, MaxContentLen + 1), idx : 0..1]
      [] fn = "parseParams" ->
            [ContentData : ParamContents]
      [] fn = "parseBeginRequest" ->
            [ContentData : SeqsOf(RoleBytes, 0, MaxContentLen + 1)]
      [] fn = "readRecord" ->
            [version : {0, 1, 2}, type : TypeBytes, id : {0, 1},
             clen : 0..1, plen : 0..1, reserved : {0, 1, 255},
             rest : SeqsOf({7}, 0, 2), eof : {TRUE}]
      [] fn = "readSegment" ->
            { a \in [Type : {FCGIParams, FCGIStdin}, RequestID : {1},
                     ContentData : SeqsOf({97}, 0, MaxContentLen),
                     cut : 1..(fixedLength + MaxContentLen), eof : BOOLEAN] :
                a.cut < fixedLength + Len(a.ContentData) }
      [] fn = "roundTrip" ->
            [Type : 1..10, RequestID : RequestIDs, ContentData : RoundTripContents]
      [] fn = "sendStream" ->
            [requestID : {1, 258},
             payload : { Ramp(n) : n \in 1..MaxPayloadLen },
             writeEachRecord : BOOLEAN,
             maxContentSize : 1..MaxChunk \cup {MaxContentSizeLimit}]
      [] fn = "sendResponse" ->
            [requestID : RequestIDs,
             bodySize : 1..MaxBodySize,
             writeEachRecord : BOOLEAN,
             maxContentSize : 1..MaxChunk \cup {47, 48, MaxContentSizeLimit}]

Functions == {"readLength", "parseParams", "parseBeginRequest", "readRecord",
              "readSegment", "roundTrip", "sendStream", "sendResponse"}

InitCodec ==
    /\ args \in {[BodySize |-> 1, WriteEachRecord |-> TRUE,
                  MaxContentSize |-> MaxContentSizeLimit]}
    /\ up = TRUE
    /\ pc = [c \in Conns |-> "none"]
    /\ budget = [c \in Conns |-> 0]
    /\ inbuf = [c \in Conns |-> << >>]
    /\ peerClosed = [c \in Conns |-> FALSE]
    /\ closeAfterRequest = [c \in Conns |-> << >>]
    /\ out = [c \in Conns |-> << >>]
    /\ log = [c \in Conns |-> << >>]
    /\ \E fn \in Functions :
          \E a \in CallArgs(fn) :
             call = [fn |-> fn, arg |-> a, ret |-> << >>, done |-> FALSE]

Return(r) ==
    /\ ~call.done
    /\ call' = [call EXCEPT !.ret = r, !.done = TRUE]
    /\ UNCHANGED srvVars

CallReadLength ==
    /\ call.fn = "readLength"
    /\ Return(readLength(call.arg.cd, call.arg.idx))

CallParseParams ==
    /\ call.fn = "parseParams"
    /\ Return(parseParams(call.arg))

CallParseBeginRequest ==
    /\ call.fn = "parseBeginRequest"
    /\ Return(parseBeginRequest(call.arg))

\* readRecord on a connection that has received the frame of the arguments
CallReadRecord ==
    /\ call.fn = "readRecord"
    /\ Return(readRecord([buf |-> RawFrame(call.arg.version, call.arg.type,
                                           call.arg.id, call.arg.clen,
                                           call.arg.plen, call.arg.reserved,
                                           call.arg.rest),
                          eof |-> call.arg.eof]))

\* readRecord on a connection that has received the first cut bytes of
\* r.serialize(): the first segment of the record, the rest still to come
\* unless the peer has closed
CallReadSegment ==
    /\ call.fn = "readSegment"
    /\ Return(readRecord([buf |-> Slice(serialize(call.arg), 0, call.arg.cut),
                          eof |-> call.arg.eof]))

\* readRecord on a connection that has received r.serialize(), and no more
CallRoundTrip ==
    /\ call.fn = "roundTrip"
    /\ Return(readRecord([buf |-> serialize(call.arg), eof |-> FALSE]))

\* sendStream on a writer that accepts every write in full
CallSendStream ==
    /\ call.fn = "sendStream"
    /\ Return(sendStream(call.arg.requestID, call.arg.payload,
                         call.arg.writeEachRecord, call.arg.maxContentSize))

\* sendResponse on a writer that accepts every write in full
CallSendResponse ==
    /\ call.fn = "sendResponse"
    /\ Return(sendResponse(call.arg.requestID, call.arg.bodySize,
                           call.arg.writeEachRecord, call.arg.maxContentSize))

NextCodec ==
    \/ CallReadLength
    \/ CallParseParams
    \/ CallParseBeginRequest
    \/ CallReadRecord
    \/ CallReadSegment
    \/ CallRoundTrip
    \/ CallSendStream
    \/ CallSendResponse

SpecCodec == InitCodec /\ [][NextCodec]_vars

----------------------------------------------------------------------------
(* Reading a byte stream back as records, by the wire format of section    *)
(* 3.3 of the FastCGI specification.  A stream that does not split into    *)
(* whole records ends in a record of type -1.                              *)

RECURSIVE Records(_)
Records(b) ==
    IF b = << >> THEN << >>
    ELSE IF Len(b) < 8 \/ Len(b) < 8 + b[5] * 256 + b[6] + b[7]
    THEN << [Version |-> 0, Type |-> -1, RequestID |-> 0,
             ContentData |-> << >>, PaddingLength |-> 0, Reserved |-> 0] >>
    ELSE LET clen == b[5] * 256 + b[6]
         IN  << [Version |-> b[1], Type |-> b[2],
                 RequestID |-> b[3] * 256 + b[4],
                 ContentData |-> SubSeq(b, 9, 8 + clen),
                 PaddingLength |-> b[7], Reserved |-> b[8]] >>
             \o Records(SubSeq(b, 9 + clen + b[7], Len(b)))

RECURSIVE Contents(_)
Contents(recs) ==
    IF recs = << >> THEN << >> ELSE Head(recs).ContentData \o Contents(Tail(recs))

NonEmpty(rec) == rec.ContentData # << >>

Done(fn) == call.fn = fn /\ call.done

\* recs is a response for request id: non-empty Stdout records, one empty
\* Stdout record, one EndRequest record with an all-zero body of 8 bytes
IsResponse(recs, id) ==
    LET n == Len(recs)
    IN  /\ n >= 3
        /\ \A i \in 1..n : /\ recs[i].Version = 1
                           /\ recs[i].RequestID = id
                           /\ recs[i].PaddingLength = 0
                           /\ recs[i].Reserved = 0
        /\ \A i \in 1..(n - 2) : recs[i].Type = FCGIStdout /\ NonEmpty(recs[i])
        /\ recs[n - 1].Type = FCGIStdout /\ recs[n - 1].ContentData = << >>
        /\ recs[n].Type = FCGIEndRequest /\ recs[n].ContentData = Fill(8, 0)

----------------------------------------------------------------------------
(* C3 *)

\* C3: for a payload of length L >= 1 and a chunk limit M in 1..65535,
\* sendStream emits exactly ceil(L/M) non-empty Stdout records, each of at
\* most M content bytes and all but the last of exactly M, whose contents
\* in emission order make up the payload.
C3_Chunking ==
    Done("sendStream") =>
        LET L == Len(call.arg.payload)
            M == call.arg.maxContentSize
            emitted == IF call.arg.writeEachRecord
                       THEN Flatten(call.ret.writes) ELSE call.ret.buf
            recs == Records(emitted)
            ne == SelectSeq(recs, NonEmpty)
        IN  /\ Len(ne) = (L + M - 1) \div M
            /\ \A i \in 1..Len(recs) : recs[i].Type = FCGIStdout
            /\ \A i \in 1..Len(ne) :
                  /\ Len(ne[i].ContentData) <= M
                  /\ i < Len(ne) => Len(ne[i].ContentData) = M
            /\ ne = SubSeq(recs, 1, Len(ne))
            /\ Contents(ne) = call.arg.payload
            /\ call.arg.writeEachRecord => Len(call.ret.writes) = Len(recs)

\* M = 4 and L = 10 give the content lengths 4, 4, 2
C3_Witness ==
    /\ Done("sendStream")
    /\ Len(call.arg.payload) = 10
    /\ call.arg.maxContentSize = 4
    /\ LET ne == SelectSeq(Records(call.ret.buf), NonEmpty)
       IN  [i \in 1..Len(ne) |-> Len(ne[i].ContentData)] = << 4, 4, 2 >>

----------------------------------------------------------------------------
(* C4 *)

\* C4: a successful sendResponse for request id r writes the content
\* Stdout records, then exactly one zero-length Stdout record, then exactly
\* one EndRequest record with an all-zero 8-byte body, which is the last
\* record; every record carries request id r.
C4_ResponseShape ==
    Done("sendResponse") =>
        LET recs == Records(Flatten(call.ret.writes))
        IN  /\ IsResponse(recs, call.arg.requestID)
            /\ Contents(recs) =
                  headers \o Fill(call.arg.bodySize, 97) \o Fill(8, 0)

C4_Witness ==
    /\ Done("sendResponse")
    /\ call.arg.requestID = 65535
    /\ ~call.arg.writeEachRecord
    /\ Len(Records(Flatten(call.ret.writes))) > 3

----------------------------------------------------------------------------
(* C6 *)

\* C6: readRecord applied to the bytes of Record{Type: t, RequestID: id,
\* ContentData: c}.serialize() returns version 1, type t, request id id,
\* content length len(c), padding length 0 and content c, and consumes
\* exactly the serialized bytes.
C6_RoundTrip ==
    Done("roundTrip") =>
        /\ call.ret.kind = "ok"
        /\ call.ret.record.Version = 1
        /\ call.ret.record.Type = call.arg.Type
        /\ call.ret.record.RequestID = call.arg.RequestID
        /\ call.ret.record.ContentLength = Len(call.arg.ContentData)
        /\ call.ret.record.PaddingLength = 0
        /\ call.ret.record.PaddingData = << >>
        /\ call.ret.record.ContentData = call.arg.ContentData
        /\ call.ret.rd.buf = << >>

C6_Witness ==
    /\ Done("roundTrip")
    /\ call.arg.RequestID = 65535
    /\ Len(call.arg.ContentData) = 257
    /\ call.ret.kind = "ok"

----------------------------------------------------------------------------
(* C7 *)

\* C7: with a transport that accepts every write in full, the bytes
\* sendResponse writes with writeEachRecord = true (one write per record)
\* are the bytes it writes with writeEachRecord = false (one write of the
\* accumulated buffer).
C7_SameBytes ==
    Done("sendResponse") =>
        LET other == sendResponse(call.arg.requestID, call.arg.bodySize,
                                  ~call.arg.writeEachRecord,
                                  call.arg.maxContentSize)
            each == IF call.arg.writeEachRecord THEN call.ret ELSE other
            whole == IF call.arg.writeEachRecord THEN other ELSE call.ret
        IN  /\ Flatten(each.writes) = Flatten(whole.writes)
            /\ Len(whole.writes) = 1
            /\ Len(each.writes) = Len(Records(Flatten(each.writes)))

C7_Witness ==
    /\ Done("sendResponse")
    /\ call.arg.writeEachRecord
    /\ Len(call.ret.writes) > 3

----------------------------------------------------------------------------
(* C8 *)

\* "foo" and "bar"
Foo == << 102, 111, 111 >>
Bar == << 98, 97, 114 >>

\* C8 as stated: decoding the Params content [0x03]"foo"[0x03]"bar" yields
\* the single pair ("foo", "bar") without error, and decoding empty content
\* yields no pair without error.
C8_AsStated ==
    Done("parseParams") =>
        /\ call.arg.ContentData = FooBarInterleaved =>
              call.ret.kind = "ok" /\ call.ret.pairs = << << Foo, Bar >> >>
        /\ call.arg.ContentData = << >> =>
              call.ret.kind = "ok" /\ call.ret.pairs = << >>

\* C8, amended: decoding the Params content [0x03][0x03]"foo""bar" (both
\* lengths, then the name, then the value) yields the single pair
\* ("foo", "bar") without error, and decoding empty content yields no pair
\* without error.
C8_LengthsFirst ==
    Done("parseParams") =>
        /\ call.arg.ContentData = FooBarLengthsFirst =>
              call.ret.kind = "ok" /\ call.ret.pairs = << << Foo, Bar >> >>
        /\ call.arg.ContentData = << >> =>
              call.ret.kind = "ok" /\ call.ret.pairs = << >>

C8_Witness ==
    /\ Done("parseParams")
    /\ call.arg.ContentData = FooBarLengthsFirst
    /\ call.ret.kind = "ok"

----------------------------------------------------------------------------
(* C9 *)

RoleOf(cd) == cd[1] * 256 + cd[2]

\* What C9 says of parseBeginRequest: it fails with an unknown-role error
\* if and only if the big-endian 16-bit role is not 1, 2 or 3.
C9_Role ==
    (Done("parseBeginRequest") /\ Len(call.arg.ContentData) >= 2) =>
        ((call.ret.kind = "err" /\ call.ret.err = "unknown role")
            <=> RoleOf(call.arg.ContentData) \notin {1, 2, 3})

\* C9 as stated: readRecord fails with an unknown-record-type error if and
\* only if the type byte of the header is not one of 1..10, fails when the
\* version byte is not 1 and fails when the reserved byte is not 0.
C9_AsStated ==
    /\ Done("readRecord") =>
          /\ (call.ret.kind = "err" /\ call.ret.err = "unknown record type")
                <=> call.arg.type \notin 1..10
          /\ call.arg.version # 1 => call.ret.kind = "err"
          /\ call.arg.reserved # 0 => call.ret.kind = "err"
    /\ C9_Role

\* C9, amended: readRecord fails with an unexpected-version error when the
\* version byte is not 1, whatever the type byte; when the version byte is
\* 1 it fails with an unknown-record-type error if and only if the type
\* byte is not one of 1..10 (0, 11 and every value >= 12 are rejected); it
\* fails when the reserved byte is not 0.  parseBeginRequest is as stated.
C9_VersionFirst ==
    /\ Done("readRecord") =>
          /\ call.arg.version # 1 =>
                call.ret.kind = "err" /\ call.ret.err = "unexpected version"
          /\ call.arg.version = 1 =>
                ((call.ret.kind = "err" /\ call.ret.err = "unknown record type")
                    <=> call.arg.type \notin 1..10)
          /\ call.arg.reserved # 0 => call.ret.kind = "err"
          /\ (call.arg.version = 1 /\ call.arg.type \in 1..10
                /\ call.arg.reserved # 0) =>
                call.ret.err = "reserved value is not 0"
    /\ C9_Role

C9_Witness ==
    /\ Done("readRecord")
    /\ call.arg.version = 1
    /\ call.arg.type = 11
    /\ call.ret.err = "unknown record type"

----------------------------------------------------------------------------
(* C10 *)

\* The integer encoded at offset idx of cd is all there
LengthPresent(cd, idx) ==
    /\ idx < Len(cd)
    /\ cd[idx + 1] >= 128 => idx + 3 < Len(cd)

\* C10: readLength decodes the variable-length integer at an offset: a first
\* byte with its top bit clear is the value, 1 byte consumed; otherwise the
\* value is the big-endian 31-bit number of the first byte with its top bit
\* cleared and the next 3 bytes, 4 bytes consumed.  0x00 -> (0, +1),
\* 0x7F -> (127, +1), 0x80 0x00 0x00 0x01 -> (1, +4),
\* 0xFF 0xFF 0xFF 0xFF -> (0x7FFFFFFF, +4); the value is never negative.
C10_ReadLength ==
    (Done("readLength") /\ LengthPresent(call.arg.cd, call.arg.idx)) =>
        LET cd == call.arg.cd
            i == call.arg.idx
            b == cd[i + 1]
        IN  /\ call.ret.kind = "ok"
            /\ call.ret.val >= 0
            /\ call.ret.val <= 2147483647
            /\ b < 128 => call.ret.val = b /\ call.ret.idx = i + 1
            /\ b >= 128 =>
                  /\ call.ret.val = (((b - 128) * 256 + cd[i + 2]) * 256
                                        + cd[i + 3]) * 256 + cd[i + 4]
                  /\ call.ret.idx = i + 4
            /\ (i = 0 /\ cd = << 0 >>) => call.ret.val = 0 /\ call.ret.idx = 1
            /\ (i = 0 /\ cd = << 127 >>) => call.ret.val = 127 /\ call.ret.idx = 1
            /\ (i = 0 /\ cd = << 128, 0, 0, 1 >>) =>
                  call.ret.val = 1 /\ call.ret.idx = 4
            /\ (i = 0 /\ cd = << 255, 255, 255, 255 >>) =>
                  call.ret.val = 2147483647 /\ call.ret.idx = 4

C10_Witness ==
    /\ Done("readLength")
    /\ call.arg.idx = 0
    /\ call.arg.cd = << 255, 255, 255, 255 >>
    /\ call.ret.val = 2147483647

----------------------------------------------------------------------------
(* C1 *)

\* The position in l, before i, of the last BeginRequest accepted for
\* request id r; 0 when there is none
LastBegin(l, i, r) ==
    LET js == { j \in 1..(i - 1) : l[j].e = "begin request" /\ l[j].id = r }
    IN  IF js = {} THEN 0 ELSE CHOOSE j \in js : \A k \in js : k <= j

ReadAttempt == {"management record", "application record", "reading record"}

\* C1: once a response has been fully sent for request id r, the handler
\* closes the connection without reading another record if the most recent
\* BeginRequest accepted for r had flags bit 0 set; if the bit was clear,
\* the connection stays open with no entry left for r and the handler goes
\* on to read the next record.
C1_CloseSemantics ==
    \A c \in Conns :
        \A i \in 1..Len(log[c]) :
            LET l == log[c]
                j == LastBegin(l, i, l[i].id)
            IN  (l[i].e = "sent response" /\ j # 0) =>
                    IF l[j].x % 2 = 1
                    THEN /\ Len(l) = i + 2
                         /\ l[i + 1].e = "told to close connection"
                         /\ l[i + 2].e = "connection closed"
                         /\ pc[c] = "closed"
                    ELSE /\ Len(l) >= i + 1
                         /\ l[i + 1].e = "keeping connection open"
                         /\ Len(l) = i + 1 =>
                               /\ pc[c] = "loop"
                               /\ l[i].id \notin DOMAIN closeAfterRequest[c]
                         /\ Len(l) > i + 1 => l[i + 2].e \in ReadAttempt

\* A response sent on a connection kept open, and a BeginRequest for the
\* same request id accepted after it
C1_Witness ==
    \E i \in 1..Len(log[1]) :
        /\ log[1][i].e = "sent response"
        /\ LastBegin(log[1], i, log[1][i].id) # 0
        /\ \E k \in (i + 1)..Len(log[1]) :
              log[1][k].e = "begin request" /\ log[1][k].id = log[1][i].id

----------------------------------------------------------------------------
(* C2 *)

\* "Content-Type:"
ContentTypePrefix == SubSeq(headers, 1, 13)

\* The records of the first response in recs: up to the first EndRequest
FirstResponse(recs) ==
    LET ends == { i \in 1..Len(recs) : recs[i].Type = FCGIEndRequest }
    IN  IF ends = {} THEN recs
        ELSE SubSeq(recs, 1, CHOOSE i \in ends : \A k \in ends : i <= k)

\* The handler of c has read BeginRequest(Responder, flags 0) for id 1, an
\* empty Params record and a Stdin record with content for id 1, in this
\* order and as the first records of the connection, and the transport
\* has accepted the writes of the response.
Scenario(c) ==
    /\ Len(log[c]) >= 9
    /\ log[c][2] = Ev("application record", 1, FCGIBeginRequest)
    /\ log[c][3] = Ev("begin request", 1, 0)
    /\ log[c][4] = Ev("application record", 1, FCGIParams)
    /\ log[c][5] = Ev("params record", 1, 0)
    /\ log[c][6] = Ev("application record", 1, FCGIStdin)
    /\ log[c][7].e = "stdin record" /\ log[c][7].x > 0
    /\ log[c][8].e # "sending response"

\* C2: after BeginRequest(role Responder, flags 0) for id 1, an empty Params
\* record and a Stdin record with content for id 1, the server has written
\* at least one Stdout record, the contents together beginning with
\* "Content-Type:", then one zero-length Stdout record, then one EndRequest
\* record for id 1, and the connection is still open.
C2_EndToEnd ==
    \A c \in Conns :
        Scenario(c) =>
            LET recs == FirstResponse(Records(Flatten(out[c])))
                body == Contents(recs)
            IN  /\ IsResponse(recs, 1)
                /\ Len(body) >= 13
                /\ SubSeq(body, 1, 13) = ContentTypePrefix
                /\ log[c][8] = Ev("sent response", 1, 0)
                /\ log[c][9] = Ev("keeping connection open", 1, 0)
                /\ Len(log[c]) = 9 => pc[c] = "loop"
                /\ Len(log[c]) > 9 => log[c][10].e \in ReadAttempt

C2_Witness ==
    /\ Scenario(1)
    /\ Len(log[1]) = 9
    /\ pc[1] = "loop"
    /\ Len(FirstResponse(Records(Flatten(out[1])))) > 3

----------------------------------------------------------------------------
(* C5 *)

\* C5: whatever bytes a peer sends on one connection, the server process
\* keeps running and the handlers of the other connections keep serving;
\* the only effect of bad input is that the offending connection is closed.
C5_ServerKeepsRunning ==
    /\ up
    /\ \A c \in Conns :
          \A i \in 1..Len(log[c]) : log[c][i].e # "panic"

----------------------------------------------------------------------------
(* Steps of the handler of one connection *)

\* What the handler of c prints in this step
Lines(c) == SubSeq(log'[c], Len(log[c]) + 1, Len(log'[c]))

\* In this step the handler of c takes a record from readRecord and
\* dispatches it
Dispatches(c) ==
    /\ Lines(c) # << >>
    /\ Lines(c)[1].e \in {"management record", "application record"}

----------------------------------------------------------------------------
(* C11 *)

\* C11: a step that processes a record whose request id is 0, whatever its
\* type, leaves the request table unchanged, writes no bytes to the peer
\* and leaves the connection open, the handler going on to read the next
\* record.
C11_ManagementNoEffect ==
    [][\A c \in Conns :
          (Dispatches(c) /\ Lines(c)[1].e = "management record") =>
              /\ closeAfterRequest'[c] = closeAfterRequest[c]
              /\ out'[c] = out[c]
              /\ pc'[c] = "loop"
              /\ up']_vars

----------------------------------------------------------------------------
(* C12 *)

\* The request ids the peers use
Ids == 0..2

\* The number of EndRequest records for request id r written on c
Responses(c, r) ==
    LET recs == Records(Flatten(out[c]))
    IN  Cardinality({ i \in 1..Len(recs) :
                        recs[i].Type = FCGIEndRequest /\ recs[i].RequestID = r })

\* The number of Responder BeginRequest records for r accepted on c
Begun(c, r) ==
    Cardinality({ i \in 1..Len(log[c]) :
                    log[c][i].e = "begin request" /\ log[c][i].id = r })

\* C12: at every point in a connection and for every request id r, the
\* number of EndRequest records written for r is at most the number of
\* Responder BeginRequest records accepted for r.
C12_ResponsesWithinBegins ==
    \A c \in Conns : \A r \in Ids : Responses(c, r) <= Begun(c, r)

----------------------------------------------------------------------------
(* C13 *)

\* C13: parseBeginRequest on content shorter than 3 bytes returns a decode
\* error; on content of 3 or more bytes what it returns has the role of
\* bytes 0-1 (big-endian) and the flags of byte 2, whatever bytes follow.
C13_BeginRequestBody ==
    Done("parseBeginRequest") =>
        LET cd == call.arg.ContentData
        IN  /\ call.ret.kind # "panic"
            /\ Len(cd) < 3 => call.ret.kind = "err"
            /\ call.ret.kind = "ok" =>
                  /\ call.ret.Role = cd[1] * 256 + cd[2]
                  /\ call.ret.Flags = cd[3]

----------------------------------------------------------------------------
(* C14 *)

\* The name-value pair format of section 3.4 of the FastCGI specification:
\* the size and the value of the length field at 0-based index idx of cd
LengthSize(cd, idx) == IF cd[idx + 1] >= 128 THEN 4 ELSE 1

LengthValue(cd, idx) ==
    IF cd[idx + 1] < 128 THEN cd[idx + 1]
    ELSE (cd[idx + 1] - 128) * Shl24 + cd[idx + 2] * 65536
             + cd[idx + 3] * 256 + cd[idx + 4]

\* The pairs of cd from index idx on end before a declared length field,
\* name or value is complete
RECURSIVE Truncated(_, _)
Truncated(cd, idx) ==
    IF idx >= Len(cd) THEN FALSE
    ELSE IF LengthSize(cd, idx) > Len(cd) - idx THEN TRUE
    ELSE LET i1 == idx + LengthSize(cd, idx)
         IN  IF i1 >= Len(cd) THEN TRUE
             ELSE IF LengthSize(cd, i1) > Len(cd) - i1 THEN TRUE
             ELSE LET i2 == i1 + LengthSize(cd, i1)
                      nl == LengthValue(cd, idx)
                      vl == LengthValue(cd, i1)
                  IN  IF nl > Len(cd) - i2 THEN TRUE
                      ELSE IF vl > Len(cd) - i2 - nl THEN TRUE
                      ELSE Truncated(cd, i2 + nl + vl)

\* C14: parseParams returns an error value whenever the Params content ends
\* before a declared length field, name or value is complete.
C14_TruncatedIsError ==
    (Done("parseParams") /\ Truncated(call.arg.ContentData, 0)) =>
        call.ret.kind = "err"

----------------------------------------------------------------------------
(* C15 *)

\* C15: readRecord fails on a part of a well-formed record only when the
\* stream has ended; while the stream is open it does not fail on the
\* first segment of a record, whatever the segment's length.
C15_ShortReadOnlyAtEnd ==
    Done("readSegment") => (call.ret.kind = "err" => call.arg.eof)

----------------------------------------------------------------------------
(* C16 *)

\* C16: in every step in which readRecord returns a record to the handler,
\* the bytes taken from the stream are exactly the 8 header bytes, the
\* contentLength content bytes and the paddingLength padding bytes of the
\* first record in it, in this order, so that what is left starts at the
\* next record boundary, also when the handler then rejects the record
\* (unknown or unsupported role, unhandled type).
C16_ConsumesWholeRecord ==
    [][\A c \in Conns :
          Dispatches(c) =>
              LET b == inbuf[c]
                  rec == Head(Records(b))
                  n == fixedLength + Len(rec.ContentData) + rec.PaddingLength
              IN  /\ rec.Type # -1
                  /\ inbuf'[c] = SubSeq(b, n + 1, Len(b))
                  /\ Lines(c)[1].id = rec.RequestID
                  /\ Lines(c)[1].x = rec.Type
                  /\ \A i \in 1..Len(Lines(c)) :
                        /\ Lines(c)[i].e = "stdin record" =>
                              Lines(c)[i].x = Len(rec.ContentData)
                        /\ Lines(c)[i].e = "unexpected role" =>
                              Lines(c)[i].x =
                                  rec.ContentData[1] * 256 + rec.ContentData[2]
                        /\ Lines(c)[i].e = "begin request" =>
                              Lines(c)[i].x = rec.ContentData[3]]_vars

\* The handler has rejected a padded BeginRequest record for its role, and
\* the record the peer sent after it is what is left in the stream
C16_Witness ==
    /\ pc[2] = "closed"
    /\ \E i \in 1..Len(log[2]) : log[2][i] = Ev("unexpected role", 2, FCGIFilter)
    /\ inbuf[2] = Frame(FCGIStdin, 1, << 120 >>)

----------------------------------------------------------------------------
(* C17 *)

\* The position in l, before i, of the last response fully sent for
\* request id r; 0 when there is none
LastSent(l, i, r) ==
    LET js == { j \in 1..(i - 1) : l[j].e = "sent response" /\ l[j].id = r }
    IN  IF js = {} THEN 0 ELSE CHOOSE j \in js : \A k \in js : k <= j

\* Before line i of l a Responder BeginRequest for r has been accepted and
\* no response for r has been sent since
Pending(l, i, r) == LastBegin(l, i, r) > LastSent(l, i, r)

\* C17: while a connection is open its request table has an entry for r
\* exactly when a Responder BeginRequest for r has been accepted and no
\* response for r has been sent since; and a Stdin record for an id with
\* no entry is answered and the connection kept open.
C17_TableTracksRequests ==
    \A c \in Conns :
        /\ pc[c] = "loop" =>
              \A r \in Ids :
                  r \in DOMAIN closeAfterRequest[c]
                      <=> Pending(log[c], Len(log[c]) + 1, r)
        /\ DOMAIN closeAfterRequest[c] \subseteq Ids
        /\ \A i \in 1..Len(log[c]) :
              (log[c][i].e = "sent response"
                  /\ ~Pending(log[c], i, log[c][i].id)) =>
                      /\ Len(log[c]) > i
                      /\ log[c][i + 1] =
                             Ev("keeping connection open", log[c][i].id, 0)
                      /\ Len(log[c]) = i + 1 => pc[c] = "loop"

\* On an open connection a Stdin record for an id that never began has
\* been answered, and the table holds the entry of another request
C17_Witness ==
    /\ pc[1] = "loop"
    /\ closeAfterRequest[1] # << >>
    /\ \E i \in 1..Len(log[1]) :
          /\ log[1][i].e = "keeping connection open"
          /\ LastBegin(log[1], i, log[1][i].id) = 0

\* On an open connection the entry of an answered request is gone
C17_Removed ==
    /\ pc[1] = "loop"
    /\ closeAfterRequest[1] = << >>
    /\ \E i \in 1..Len(log[1]) :
          /\ log[1][i].e = "keeping connection open"
          /\ LastBegin(log[1], i, log[1][i].id) # 0

----------------------------------------------------------------------------
(* C18 *)

\* Once the handler of c has left its loop, nothing more is read from, written
\* to or recorded for the connection
Halted(c) ==
    pc[c] = "closed" =>
        /\ pc'[c] = "closed"
        /\ inbuf'[c] = inbuf[c]
        /\ out'[c] = out[c]
        /\ log'[c] = log[c]
        /\ closeAfterRequest'[c] = closeAfterRequest[c]

\* In this step the handler of c leaves its loop and closes the
\* connection, having written nothing and with the request table as it was
Aborts(c) ==
    /\ pc'[c] = "closed"
    /\ Lines(c)[Len(Lines(c))] = Ev("connection closed", 0, 0)
    /\ out'[c] = out[c]
    /\ closeAfterRequest'[c] = closeAfterRequest[c]

\* C18: a step that processes a BeginRequest record with role Authorizer or
\* Filter closes the connection with the request table and the output as
\* they were, and nothing is read afterwards; a step that processes one
\* with role Responder sets the entry of its id to bit 0 of the flags byte,
\* whether or not the id had an entry, and changes no other entry.
C18_BeginRequestRoles ==
    [][\A c \in Conns :
          /\ Halted(c)
          /\ (Dispatches(c) /\ Lines(c)[1].x = FCGIBeginRequest) =>
                LET rec == Head(Records(inbuf[c]))
                    cd == rec.ContentData
                    role == cd[1] * 256 + cd[2]
                    old == closeAfterRequest[c]
                IN  Len(cd) >= 3 =>
                      /\ role \in {FCGIAuthorizer, FCGIFilter} => Aborts(c)
                      /\ role = FCGIResponder =>
                            /\ closeAfterRequest'[c] =
                                  [r \in DOMAIN old \cup {rec.RequestID} |->
                                      IF r = rec.RequestID
                                      THEN cd[3] % 2 = 1 ELSE old[r]]
                            /\ out'[c] = out[c]
                            /\ pc'[c] = "loop"]_vars

\* A BeginRequest with role Responder and flags 2 has made an entry that
\* says not to close, and a BeginRequest with role Authorizer after it has
\* closed the connection
C18_Witness ==
    /\ pc[2] = "closed"
    /\ out[2] = << >>
    /\ DOMAIN closeAfterRequest[2] = {2}
    /\ ~closeAfterRequest[2][2]
    /\ \E i \in 1..Len(log[2]) : log[2][i] = Ev("begin request", 2, 2)
    /\ \E i \in 1..Len(log[2]) :
          log[2][i] = Ev("unexpected role", 1, FCGIAuthorizer)

----------------------------------------------------------------------------
(* C19 *)

\* The record types that handleConnection has no branch for
OtherTypes ==
    {FCGIAbortRequest, FCGIEndRequest, FCGIStdout, FCGIStderr, FCGIData,
     FCGIGetValues, FCGIGetValuesResult}

\* C19: a step in which readRecord returns a record with a request id
\* other than 0 and a type other than BeginRequest, Params and Stdin closes
\* the connection, with nothing written and the request table as it was,
\* and nothing is read on the connection afterwards.
C19_UnhandledTypeCloses ==
    [][\A c \in Conns :
          /\ pc[c] = "closed" => (pc'[c] = "closed" /\ inbuf'[c] = inbuf[c])
          /\ Dispatches(c) =>
                LET rec == Head(Records(inbuf[c]))
                IN  (rec.RequestID # 0 /\ rec.Type \in OtherTypes) =>
                        /\ Aborts(c)
                        /\ Lines(c) =
                              << Ev("application record", rec.RequestID, rec.Type),
                                 Ev("unhandled record type", rec.RequestID,
                                    rec.Type),
                                 Ev("connection closed", 0, 0) >>]_vars

\* An AbortRequest record for a request that has begun has closed the
\* connection: nothing was written and the entry of the request is still
\* in the table
C19_Witness ==
    /\ pc[2] = "closed"
    /\ out[2] = << >>
    /\ DOMAIN closeAfterRequest[2] = {1}
    /\ \E i \in 1..Len(log[2]) :
          log[2][i] = Ev("unhandled record type", 1, FCGIAbortRequest)

----------------------------------------------------------------------------
(* C20 *)

\* What the handler prints on a record decode error, a BeginRequest body
\* with an unknown role, a Params decode error, a role other than
\* Responder, an unhandled record type and a response write error
FatalLines ==
    {"reading record", "reading begin request", "reading params",
     "unexpected role", "unhandled record type", "sending response"}

\* The number of times the handler of c has closed the stream
Closes(c) ==
    Cardinality({ i \in 1..Len(log[c]) : log[c][i].e = "connection closed" })

\* C20: after any fatal event on a connection, a BeginRequest or Params
\* body too short to decode included, the handler has read no further
\* record, has closed the stream exactly once and has terminated.
C20_FatalClosesOnce ==
    \A c \in Conns :
        \A i \in 1..Len(log[c]) :
            (log[c][i].e \in FatalLines \cup {"panic"}) =>
                /\ pc[c] = "closed"
                /\ Len(log[c]) = i + 1
                /\ log[c][i + 1] = Ev("connection closed", 0, 0)
                /\ Closes(c) = 1

----------------------------------------------------------------------------
(* C21 *)

IsEndRequest(rec) == rec.Type = FCGIEndRequest

IsSentResponse(line) == line.e = "sent response"

\* The request ids of the elements of s, in order
IdsOf(s) == [i \in 1..Len(s) |-> IF "id" \in DOMAIN s[i]
                                 THEN s[i].id ELSE s[i].RequestID]

\* The records recs written to a connection that printed l are whole
\* responses one after the other, one for each response the handler
\* reports as sent and in that order, every record carrying the id of the
\* EndRequest record that ends its response; a response may be missing its
\* end only when it is the last and its writing failed.
InSequence(recs, l) ==
    LET ends == { i \in 1..Len(recs) : IsEndRequest(recs[i]) }
    IN  /\ \A i \in 1..Len(recs) : recs[i].Type \in {FCGIStdout, FCGIEndRequest}
        /\ IdsOf(SelectSeq(recs, IsEndRequest))
               = IdsOf(SelectSeq(l, IsSentResponse))
        /\ \A i \in 1..Len(recs) :
              LET later == { e \in ends : e >= i }
              IN  IF later # {}
                  THEN recs[i].RequestID =
                           recs[CHOOSE e \in later : \A k \in later : e <= k].RequestID
                  ELSE /\ recs[i].RequestID = recs[Len(recs)].RequestID
                       /\ l[Len(l) - 1].e = "sending response"

\* C21: on each connection arriving bytes join the end of the stream and
\* each step of the handler acts on the oldest unread record; only a step
\* that reads a Stdin record writes, and unless a write fails what it
\* writes is one whole response for that record's id (content Stdout
\* records, the empty Stdout record, the EndRequest record), so that it is
\* written before the next record is read and the output is a sequence of
\* whole responses in the order of the Stdin records.
C21_InOrder ==
    [][\A c \in Conns :
          LET rec == Head(Records(inbuf[c]))
              new == SubSeq(out'[c], Len(out[c]) + 1, Len(out'[c]))
              sent == \E i \in 1..Len(Lines(c)) : Lines(c)[i].e = "sent response"
          IN  /\ (inbuf'[c] # inbuf[c] /\ log'[c] = log[c]) =>
                    /\ Len(inbuf'[c]) > Len(inbuf[c])
                    /\ SubSeq(inbuf'[c], 1, Len(inbuf[c])) = inbuf[c]
              /\ Dispatches(c) =>
                    /\ Lines(c)[1].id = rec.RequestID
                    /\ Lines(c)[1].x = rec.Type
                    /\ Records(inbuf[c]) = << rec >> \o Records(inbuf'[c])
                    /\ rec.Type = FCGIStdin =>
                          \/ /\ sent
                             /\ \A recs \in {Records(Flatten(new))} :
                                   IsResponse(recs, rec.RequestID)
                          \/ /\ ~sent
                             /\ Lines(c)[Len(Lines(c)) - 1].e = "sending response"
                             /\ pc'[c] = "closed"
              /\ Len(out'[c]) >= Len(out[c])
              /\ SubSeq(out'[c], 1, Len(out[c])) = out[c]
              /\ new # << >> => (Dispatches(c) /\ rec.Type = FCGIStdin)
              /\ new # << >> =>
                    \A recs \in {Records(Flatten(out'[c]))} :
                        InSequence(recs, log'[c])]_vars

\* Two requests were open on the connection when the Stdin record of the
\* first was read, and both have been answered
C21_Witness ==
    /\ pc[2] = "loop"
    /\ \E i, j \in 1..Len(log[2]) :
          /\ i < j
          /\ log[2][i] = Ev("sent response", 1, 0)
          /\ log[2][j] = Ev("sent response", 2, 0)
          /\ LastBegin(log[2], i, 1) # 0
          /\ LastBegin(log[2], i, 2) # 0
    /\ Len(SelectSeq(Records(Flatten(out[2])), IsEndRequest)) = 2

----------------------------------------------------------------------------
(* C22 *)

\* What belongs to connection c
OfConn(c) == << pc[c], inbuf[c], peerClosed[c], closeAfterRequest[c],
                out[c], log[c], budget[c] >>

\* The request table that the lines l printed by a handler account for:
\* an entry for each id begun and not answered since, saying whether the
\* latest BeginRequest for the id had bit 0 of its flags set
TableOf(l) ==
    LET n == Len(l) + 1
    IN  [r \in { r \in Ids : Pending(l, n, r) } |->
            l[LastBegin(l, n, r)].x % 2 = 1]

\* C22: a step that changes anything of one connection changes nothing of
\* another; while a connection is open its request table is the one its
\* own records account for; and after a response for r the handler stays
\* open unless the connection's own latest BeginRequest for r, not
\* answered before, had bit 0 set, so it stays open when there was none.
C22_TablesPerConnection ==
    [][\A c \in Conns :
          /\ OfConn(c)' # OfConn(c) =>
                \A d \in Conns \ {c} : OfConn(d)' = OfConn(d)
          /\ pc'[c] = "loop" => closeAfterRequest'[c] = TableOf(log'[c])
          /\ \A i \in 1..Len(Lines(c)) :
                Lines(c)[i].e = "sent response" =>
                    LET r == Lines(c)[i].id
                        mine == TableOf(log[c])
                    IN  IF r \in DOMAIN mine /\ mine[r]
                        THEN /\ Lines(c)[i + 1].e = "told to close connection"
                             /\ pc'[c] = "closed"
                        ELSE /\ Lines(c)[i + 1].e = "keeping connection open"
                             /\ pc'[c] = "loop"]_vars

\* Connection 1 holds an entry for request 1 that says to close; on
\* connection 2 request 1 began with bit 0 clear and has been answered, and
\* connection 2 is open
C22_Witness ==
    /\ pc[1] = "loop" /\ pc[2] = "loop"
    /\ DOMAIN closeAfterRequest[1] = {1}
    /\ closeAfterRequest[1][1]
    /\ closeAfterRequest[2] = << >>
    /\ \E i, j \in 1..Len(log[2]) :
          /\ i < j
          /\ log[2][i] = Ev("begin request", 1, 0)
          /\ log[2][j] = Ev("keeping connection open", 1, 0)

\* Connection 1 holds an entry for request 1 that says to close; on
\* connection 2 a Stdin record for request 1 came with no BeginRequest, has
\* been answered, and connection 2 is open
C22_NoEntry ==
    /\ pc[1] = "loop" /\ pc[2] = "loop"
    /\ DOMAIN closeAfterRequest[1] = {1}
    /\ closeAfterRequest[1][1]
    /\ Begun(2, 1) = 0
    /\ \E j \in 1..Len(log[2]) :
          log[2][j] = Ev("keeping connection open", 1, 0)

----------------------------------------------------------------------------
(* C23 *)

\* C23 as stated: when the handler has closed the connection because the
\* request it just answered had its close-after-request flag set, the
\* request table holds no entry of another request id.
C23_NoRequestAbandoned ==
    \A c \in Conns :
        \A i \in 1..Len(log[c]) :
            log[c][i].e = "told to close connection" =>
                DOMAIN closeAfterRequest[c] \subseteq {log[c][i].id}

\* C23: a step that closes the connection because the request r it just
\* answered had its close-after-request flag set does so whatever else the
\* request table holds: the entry of r says to close, the table is left as
\* it was, every other entry in it belongs to a request that has begun and
\* has not been answered, and nothing is read or written on the connection
\* afterwards, so that these requests are never answered.
C23_ClosesWhateverIsPending ==
    [][\A c \in Conns :
          /\ Halted(c)
          /\ \A i \in 1..Len(Lines(c)) :
                Lines(c)[i].e = "told to close connection" =>
                    LET r == Lines(c)[i].id
                        table == closeAfterRequest[c]
                    IN  /\ r \in DOMAIN table
                        /\ table[r]
                        /\ closeAfterRequest'[c] = table
                        /\ pc'[c] = "closed"
                        /\ Lines(c)[Len(Lines(c))] = Ev("connection closed", 0, 0)
                        /\ \A d \in DOMAIN table \ {r} :
                              Pending(log'[c], Len(log'[c]) + 1, d)]_vars

\* The connection has been closed after the answer to request 2, and
\* request 1, begun before and not answered, still has its entry
C23_Witness ==
    /\ pc[1] = "closed"
    /\ DOMAIN closeAfterRequest[1] = {1, 2}
    /\ \E i \in 1..Len(log[1]) :
          /\ log[1][i] = Ev("told to close connection", 2, 0)
          /\ LastBegin(log[1], i, 1) # 0
    /\ Responses(1, 1) = 0
    /\ Responses(1, 2) = 1

====
